---- MODULE Spec2Model ----
(***************************************************************************)
(* A model of the music search backend of src/app_optimized.py: the        *)
(* /search aggregation pipeline (local index, proxy API with endpoint      *)
(* failover, netease backup, deduplication, demo fallback) and the         *)
(* /song_detail handler with its background save thread.                   *)
(*                                                                         *)
(* Strings are sequences of one-character strings, so that lower(),        *)
(* strip() and ', '.join() are computed and not assumed.                   *)
(***************************************************************************)
EXTENDS Integers, Sequences, FiniteSets, TLC

\* ------------------------------------------------------------------ bounds

\* Largest value of the limit query parameter of /search that is explored.
MaxLimit == 5
\* Magnitude of the smallest (negative) limit that is explored.
MaxNegLimit == 1
\* Largest sqlite AUTOINCREMENT id handed out before new requests stop.
MaxRowId == 3
\* Number of background save threads that may be pending at once.
MaxThreads == 2
\* Number of request threads calling _make_request at the same time.
MaxCallers == 2
\* Largest value of the page parameter of /analyzed_songs.
MaxPage == 2
\* Rows the table may hold beyond the page cap of /analyzed_songs.
MaxExtraRows == 2

\* ------------------------------------------------------- program constants

\* len(self.api_endpoints)
NumEndpoints == 3
\* the "local results are enough" threshold of /search
LocalEnough == 5
\* search_mock_data(query, 5)
MockLimit == 5
\* search_music(query, src, 10, 1) / search_netease_backup(query, 10)
OnlineCount == 10

\* ----------------------------------------------------------------- strings

Min(a, b) == IF a < b THEN a ELSE b
Max(a, b) == IF a > b THEN a ELSE b

\* str.lower() on one character
LowerChar(c) ==
    CASE c = "A" -> "a"
      [] c = "X" -> "x"
      [] c = "Y" -> "y"
      [] OTHER -> c

\* str.lower()
Lower(s) == [i \in 1..Len(s) |-> LowerChar(s[i])]

IsSpace(c) == c \in {" ", "\n"}

\* str.strip(): drops leading and trailing whitespace
Strip(s) ==
    LET keep == {i \in 1..Len(s) : ~IsSpace(s[i])}
    IN  IF keep = {} THEN <<>>
        ELSE LET lo == CHOOSE i \in keep : \A j \in keep : i <= j
                 hi == CHOOSE i \in keep : \A j \in keep : i >= j
             IN  SubSeq(s, lo, hi)

RECURSIVE Join(_, _)
\* sep.join(parts)
Join(parts, sep) ==
    IF Len(parts) = 0 THEN <<>>
    ELSE IF Len(parts) = 1 THEN parts[1]
    ELSE parts[1] \o sep \o Join(Tail(parts), sep)

CommaSpace == <<",", " ">>

\* seq[:n] of Python, negative n included
PySlice(s, n) ==
    IF n >= 0 THEN SubSeq(s, 1, Min(n, Len(s)))
    ELSE SubSeq(s, 1, Max(Len(s) + n, 0))

\* An artist value is a string or a list of strings (JSON); the tag tells them apart.
StrVal(s) == [kind |-> "str", val |-> s]
ListVal(l) == [kind |-> "list", val |-> l]

\* artist_str of the dedup loop: ', '.join(artist) for a list, str(artist) otherwise
ArtistStr(artist) ==
    IF artist.kind = "list" THEN Join(artist.val, CommaSpace) ELSE artist.val

\* name_str of the dedup loop
NameKey(song) == Strip(Lower(song.name))
\* artist_key of the dedup loop
ArtistKey(song) == Strip(Lower(ArtistStr(song.artist)))
\* Faulty variant: the key is built without lower().
DedupKey_NoLower(song) ==
    Strip(song.name) \o <<"-">> \o Strip(ArtistStr(song.artist))
\* key = f"{name_str}-{artist_key}"
DedupKey(song) == NameKey(song) \o <<"-">> \o ArtistKey(song)

\* --------------------------------------------------------- request inputs

\* Raw values of the q parameter: missing/empty, whitespace only, a keyword.
RawQueries == {<<>>, <<" ">>, <<" ", "q">>}

\* Values of the limit parameter.
Limits == (0 - MaxNegLimit)..MaxLimit

\* Documents of the local index: hit['_id'], _source.song, _source.singer.
Hit(id, song, singer) == [id |-> id, song |-> song, singer |-> singer]
h1 == Hit(1, <<"A", "b">>, <<"X">>)
h2 == Hit(2, <<"a", "b">>, <<"x", " ">>)
h3 == Hit(3, <<"c">>, <<"Y">>)
h4 == Hit(4, <<"d">>, <<"Y">>)
h5 == Hit(5, <<"e">>, <<"Y">>)
h6 == Hit(6, <<"f">>, <<"Y">>)

\* What one query of the local index does: it raises, or it returns hits.
Raises == [raise |-> TRUE, hits |-> <<>>]
Hits(l) == [raise |-> FALSE, hits |-> l]

SongQueryOutcomes == {Raises, Hits(<<>>), Hits(<<h1>>), Hits(<<h1, h2, h3>>),
                      Hits(<<h1, h2, h3, h4, h5>>), Hits(<<h1, h2, h3, h4, h5, h6>>)}
SingerQueryOutcomes == {Raises, Hits(<<>>), Hits(<<h1, h4>>), Hits(<<h4, h5>>)}
GeciQueryOutcomes == {Raises, Hits(<<>>), Hits(<<h5, h6>>)}

\* Songs as the proxy API returns them (JSON objects with id, name, artist).
Raw(id, name, artist) == [id |-> id, name |-> name, artist |-> artist]
r1 == Raw(1, <<"A", "b">>, StrVal(<<"X">>))
r2 == Raw(2, <<" ", "a", "b">>, ListVal(<<<<"x">>>>))
r3 == Raw(3, <<"a", "b">>, ListVal(<<<<"x">>, <<"y">>>>))
r4 == Raw(4, <<"a", "b">>, StrVal(<<"x", ",", " ", "y">>))
r5 == Raw(5, <<>>, StrVal(<<>>))
r6 == Raw(6, <<" ">>, StrVal(<<"X">>))
r7 == Raw(7, <<"c">>, StrVal(<<"y">>))
r8 == Raw(10, <<"c", "-">>, StrVal(<<"y">>))
r9 == Raw(11, <<"c">>, StrVal(<<"-", "y">>))

\* A 200 response body of a search request: a JSON list of songs, or other JSON.
ListBody(l) == [kind |-> "list", songs |-> l, lyric |-> <<>>]
DictBody(lyric) == [kind |-> "dict", songs |-> <<>>, lyric |-> lyric]
NoneVal == [kind |-> "none", songs |-> <<>>, lyric |-> <<>>]

SearchBodies == {ListBody(<<>>), ListBody(<<r1>>), ListBody(<<r1, r2>>),
                 ListBody(<<r3, r4>>), ListBody(<<r5, r6>>), ListBody(<<r6, r7>>),
                 ListBody(<<r8, r9>>), DictBody(<<>>)}

\* Songs as music.163.com returns them: id, name, artists = [{name: ...}, ...].
b1 == Raw(8, <<"A", "b">>, ListVal(<<<<"x">>, <<"y">>>>))
b2 == Raw(9, <<"c">>, ListVal(<<<<"Y">>>>))
\* Outcome of the backup request: unusable (exception, non-200, no result.songs)
\* or a list of songs.
BackupBodies == {NoneVal, ListBody(<<b1>>), ListBody(<<b2, b1>>)}

\* ------------------------------------------------------- pure functions

Song(id, name, artist, source, platform) ==
    [id |-> id, name |-> name, artist |-> artist, source |-> source, platform |-> platform]

\* The dict search_local_elasticsearch builds from one hit.
LocalSong(hit) == Song(hit.id, hit.song, StrVal(hit.singer), "local", "local")

MapLocal(hits) == [i \in 1..Len(hits) |-> LocalSong(hits[i])]

\* Faulty variant: the hits are appended without the id test.
AddNewHits_NoIdCheck(results, hits) ==
    results \o [i \in 1..Len(hits) |-> Song(hits[i].id, hits[i].song,
                                            [kind |-> "str", val |-> hits[i].singer],
                                            "local", "local")]
RECURSIVE AddNewHits(_, _)
\* The loop of a later stage: a hit is appended unless its id is already a result.
AddNewHits(results, hits) ==
    IF Len(hits) = 0 THEN results
    ELSE LET hit == Head(hits)
             ids == {results[i].id : i \in 1..Len(results)}
         IN  AddNewHits(IF hit.id \notin ids THEN Append(results, LocalSong(hit))
                        ELSE results,
                        Tail(hits))

\* Faulty variant: the test is <= instead of <.
StageQueried_AtMost(acc, lim) == ~acc.raise /\ Len(acc.hits) <= lim
\* if len(results) < limit: the index of a later stage is queried (never after
\* an exception, which leaves the try block).
StageQueried(acc, lim) == ~acc.raise /\ Len(acc.hits) < lim

\* One later stage (singer, lyric) of the local search: skipped when the results
\* reach limit; an exception of its query propagates (marked by raise).
LocalStage(acc, outcome, lim) ==
    IF ~StageQueried(acc, lim) THEN acc
    ELSE IF outcome.raise THEN Raises
    ELSE Hits(AddNewHits(acc.hits, PySlice(outcome.hits, lim - Len(acc.hits))))

\* Faulty variant: the except clause returns the songs gathered before the exception.
search_local_elasticsearch_KeepPartial(searcher, songQ, singerQ, geciQ, lim) ==
    IF ~searcher \/ songQ.raise THEN <<>>
    ELSE LET s1 == Hits(MapLocal(PySlice(songQ.hits, lim)))
             s2 == LocalStage(s1, singerQ, lim)
             s3 == LocalStage(s2, geciQ, lim)
         IN  IF s2.raise THEN s1.hits ELSE IF s3.raise THEN s2.hits ELSE s3.hits
\* search_local_elasticsearch(query, limit): searcher is FALSE when local_searcher
\* is None; the three outcomes are what the index would answer to the query.
search_local_elasticsearch(searcher, songQ, singerQ, geciQ, lim) ==
    IF ~searcher THEN <<>>
    ELSE LET s1 == IF songQ.raise THEN Raises
                   ELSE Hits(MapLocal(PySlice(songQ.hits, lim)))
             s2 == LocalStage(s1, singerQ, lim)
             s3 == LocalStage(s2, geciQ, lim)
         IN  IF s3.raise THEN <<>> ELSE s3.hits

\* One query of a local index, with len(results) when it was sent.
Queried(index, before) == [index |-> index, before |-> before]

\* The index queries search_local_elasticsearch sends, in their order.
LocalQueries(searcher, songQ, singerQ, geciQ, lim) ==
    IF ~searcher THEN <<>>
    ELSE LET s1 == IF songQ.raise THEN Raises
                   ELSE Hits(MapLocal(PySlice(songQ.hits, lim)))
             s2 == LocalStage(s1, singerQ, lim)
         IN  <<Queried("song", 0)>>
             \o (IF StageQueried(s1, lim) THEN <<Queried("singer", Len(s1.hits))>>
                 ELSE <<>>)
             \o (IF StageQueried(s2, lim) THEN <<Queried("geci", Len(s2.hits))>>
                 ELSE <<>>)

\* The result list search_music builds from the data _make_request returned.
SearchMusicResults(data, source) ==
    IF data.kind = "list"
    THEN [i \in 1..Len(data.songs) |->
            Song(data.songs[i].id, data.songs[i].name, data.songs[i].artist,
                 source, source)]
    ELSE <<>>

\* The result list search_netease_backup builds: artist is ', '.join(artists).
BackupResults(body, lim) ==
    IF body.kind = "list" /\ Len(body.songs) > 0
    THEN LET cut == PySlice(body.songs, lim)
         IN  [i \in 1..Len(cut) |->
                Song(cut[i].id, cut[i].name, StrVal(Join(cut[i].artist.val, CommaSpace)),
                     "netease", "netease")]
    ELSE <<>>

\* search_mock_data(query, limit): two demo songs named after the query.
search_mock_data(q, lim) ==
    PySlice(<<Song(101, q \o <<" ", "-", " ", "m">>, StrVal(<<"K">>), "demo", "demo"),
              Song(102, <<"g">> \o q \o <<"g">>, StrVal(<<"L">>), "demo", "demo")>>,
            lim)

RECURSIVE DedupLoop(_, _, _, _, _)
\* The dedup loop of /search from position i on: unique and seen so far.
DedupLoop(all, i, unique, seen, lim) ==
    IF i > Len(all) THEN unique
    ELSE LET song == all[i]
             key == DedupKey(song)
         IN  IF key \notin seen /\ key # <<"-">> /\ NameKey(song) # <<>>
             THEN LET u2 == Append(unique,
                                   [song EXCEPT !.artist = StrVal(ArtistStr(song.artist))])
                  IN  IF Len(u2) >= lim THEN u2
                      ELSE DedupLoop(all, i + 1, u2, seen \cup {key}, lim)
             ELSE DedupLoop(all, i + 1, unique, seen, lim)

\* Faulty variant: the loop never breaks at limit.
Dedup_NoBreak(all, lim) == DedupLoop(all, 1, <<>>, {}, Len(all) + 1)
\* unique_results of /search after the loop
Dedup(all, lim) == DedupLoop(all, 1, <<>>, {}, lim)

\* Faulty variant: the online results are put in front of the local ones.
AllResults_OnlineFirst(local, online) == online \o local
\* all_results: the copy of local_results extended by online_results
AllResults(local, online) == local \o online

\* Faulty variant: demo songs pad every answer that is shorter than limit.
FinalResults_PadWithDemo(all, q, lim) ==
    LET unique == Dedup(all, lim)
    IN  IF Len(unique) < lim THEN unique \o search_mock_data(q, MockLimit) ELSE unique
\* The 'results' of a successful /search: demo data when nothing survived.
FinalResults(all, q, lim) ==
    LET unique == Dedup(all, lim)
    IN  IF Len(unique) = 0 THEN search_mock_data(q, MockLimit) ELSE unique

\* ------------------------------------------------------------------- state

VARIABLES
    local_searcher,   \* TRUE when SearchEs() was constructed, FALSE for None
    current_api,      \* music_api.current_api, the failover cursor
    analyzed_songs,   \* rows of the analyzed_songs table
    rowid_seq,        \* the AUTOINCREMENT counter of the table
    threads,          \* the save_to_db threads: slot -> the song_data to write
    pc,               \* position of the request handler
    handler,          \* the route that is being served
    query, limit,     \* /search: the stripped q and the parsed limit
    local_results,    \* /search: local_results
    online_results,   \* /search: online_results
    src,              \* /search: index of the platform of the for loop
    response,         \* the JSON response of the request
    req_type,         \* _make_request: params['types']
    retry_count,      \* _make_request: retry_count of the running call
    retval,           \* _make_request: the value it returned
    args,             \* /song_detail: id and source
    lyric_text,       \* /song_detail: lyric_text
    song_detail,      \* /song_detail: the song_detail dict
    trace,            \* history: the lookups and outbound requests of the request
    tried,            \* history: the endpoints the running _make_request call contacted
    local_state,      \* history: how the local lookup went
    primary,          \* history: platform -> what search_music returned
    contrib,          \* history: platform -> what was added to online_results
    calls,            \* concurrent _make_request calls: thread -> its locals
    local_call        \* a call of search_local_elasticsearch: arguments and outcome

serverVars == <<local_searcher, current_api>>
dbVars == <<analyzed_songs, rowid_seq, threads>>
searchVars == <<query, limit, local_results, online_results, src>>
callVars == <<req_type, retry_count, retval>>
detailVars == <<args, lyric_text, song_detail>>
histVars == <<trace, tried, local_state, primary, contrib>>
vars == <<serverVars, dbVars, pc, handler, searchVars, response, callVars,
          detailVars, histVars, calls, local_call>>

\* sources = ['netease', 'qq'] of /search
Sources == <<"netease", "qq">>
\* self.platforms of MusicAPIProxy
Platforms == {"netease", "qq"}

Endpoints == 0..(NumEndpoints - 1)

NoArgs == [id |-> 0, source |-> "none"]
NoDetail == [id |-> 0, source |-> "none", lyric_lines |-> 0, word_count |-> 0,
             has_lyrics |-> FALSE]

NoResponse == [kind |-> "none", error |-> FALSE, results |-> <<>>, detail |-> NoDetail]
ErrorResponse == [kind |-> "json", error |-> TRUE, results |-> <<>>, detail |-> NoDetail]
SearchResponse(results) ==
    [kind |-> "json", error |-> FALSE, results |-> results, detail |-> NoDetail]
DetailResponse(d) == [kind |-> "detail", error |-> FALSE, results |-> <<>>, detail |-> d]
NoSongs == [p \in {Sources[i] : i \in 1..Len(Sources)} |-> <<>>]

Event(ev, platform, ep) == [ev |-> ev, platform |-> platform, ep |-> ep]

Slots == 1..MaxThreads
IdleThread == [busy |-> FALSE, data |-> NoDetail]

\* Request threads that may be inside _make_request at once, and the locals of
\* one that is not: at is its position, loaded the cursor value it read.
Callers == 1..MaxCallers
IdleCall == [at |-> "idle", retry_count |-> 0, tried |-> <<>>, loaded |-> 0,
             data |-> FALSE]

\* local_call before search_local_elasticsearch is called.
NoLocalCall == [called |-> FALSE, songQ |-> Raises, singerQ |-> Raises, geciQ |-> Raises,
                limit |-> 0, queries |-> <<>>, results |-> <<>>]

\* The request-local state before a request is read.
RequestReset ==
    /\ pc' = "idle"
    /\ handler' = "none"
    /\ query' = <<>>
    /\ limit' = 0
    /\ local_results' = <<>>
    /\ online_results' = <<>>
    /\ src' = 1
    /\ response' = NoResponse
    /\ req_type' = "none"
    /\ retry_count' = 0
    /\ retval' = NoneVal
    /\ args' = NoArgs
    /\ lyric_text' = <<>>
    /\ song_detail' = NoDetail
    /\ trace' = <<>>
    /\ tried' = <<>>
    /\ local_state' = "pending"
    /\ primary' = NoSongs
    /\ contrib' = NoSongs

\* The state after the module is loaded: music_api = MusicAPIProxy(), the table is
\* created empty, local_searcher is SearchEs() or None when the connection failed.
Init ==
    /\ local_searcher \in BOOLEAN
    /\ current_api = 0
    /\ analyzed_songs = {}
    /\ rowid_seq = 0
    /\ threads = [s \in Slots |-> IdleThread]
    /\ pc = "idle"
    /\ handler = "none"
    /\ query = <<>>
    /\ limit = 0
    /\ local_results = <<>>
    /\ online_results = <<>>
    /\ src = 1
    /\ response = NoResponse
    /\ req_type = "none"
    /\ retry_count = 0
    /\ retval = NoneVal
    /\ args = NoArgs
    /\ lyric_text = <<>>
    /\ song_detail = NoDetail
    /\ trace = <<>>
    /\ tried = <<>>
    /\ local_state = "pending"
    /\ primary = NoSongs
    /\ contrib = NoSongs
    /\ calls = [c \in Callers |-> IdleCall]
    /\ local_call = NoLocalCall

\* ---------------------------------------------- MusicAPIProxy._make_request

\* self._make_request(params) is entered with retry_count = 0; the guard
\* retry_count >= len(self.api_endpoints) is false, so a request follows.
CallMakeRequest(types) ==
    /\ req_type' = types
    /\ retry_count' = 0
    /\ retval' = NoneVal
    /\ tried' = <<>>
    /\ pc' = "request"

\* requests.get(api_base, ...) is sent to api_endpoints[current_api].
SendRequest ==
    /\ trace' = Append(trace,
                       Event("http", IF handler \in {"search", "suggest"} THEN Sources[src]
                                   ELSE args.source,
                             current_api))
    /\ tried' = Append(tried, current_api)

\* Faulty variant: the cursor is not moved before the retry.
NextEndpoint_NoAdvance ==
    /\ current_api' = current_api
    /\ retry_count' = retry_count + 1
    /\ IF retry_count + 1 >= NumEndpoints
       THEN pc' = "returned" /\ retval' = NoneVal
       ELSE pc' = "request" /\ UNCHANGED retval
\* Faulty variant: None is returned one failure later.
NextEndpoint_OneMore ==
    /\ current_api' = (current_api + 1) % NumEndpoints
    /\ retry_count' = retry_count + 1
    /\ IF retry_count + 1 > NumEndpoints
       THEN pc' = "returned" /\ retval' = NoneVal
       ELSE pc' = "request" /\ UNCHANGED retval
\* Faulty variant: the cursor stays where it is after the last failure.
NextEndpoint_NoLastAdvance ==
    /\ current_api' = IF retry_count + 1 >= NumEndpoints THEN current_api
                      ELSE (current_api + 1) % NumEndpoints
    /\ retry_count' = retry_count + 1
    /\ IF retry_count + 1 >= NumEndpoints
       THEN pc' = "returned" /\ retval' = NoneVal
       ELSE pc' = "request" /\ UNCHANGED retval
\* The tail of _make_request after an unusable answer: the cursor moves to the
\* next endpoint and the call recurses with retry_count + 1, which returns None
\* once retry_count reaches len(self.api_endpoints).
NextEndpoint ==
    /\ current_api' = (current_api + 1) % NumEndpoints
    /\ retry_count' = retry_count + 1
    /\ IF retry_count + 1 >= NumEndpoints
       THEN pc' = "returned" /\ retval' = NoneVal
       ELSE pc' = "request" /\ UNCHANGED retval

\* A 200 answer whose body is not JSON: the JSONDecodeError handler returns None.
BadJsonReturn ==
    /\ pc' = "returned"
    /\ retval' = NoneVal
    /\ UNCHANGED <<current_api, retry_count>>

\* requests.get raises (timeout, connection error).
HttpException ==
    /\ pc = "request"
    /\ SendRequest
    /\ NextEndpoint
    /\ UNCHANGED <<local_searcher, calls, local_call, dbVars, handler, searchVars, response, req_type,
                   detailVars, local_state, primary, contrib>>

\* The endpoint answers with a status code other than 200.
HttpNon200 ==
    /\ pc = "request"
    /\ SendRequest
    /\ NextEndpoint
    /\ UNCHANGED <<local_searcher, calls, local_call, dbVars, handler, searchVars, response, req_type,
                   detailVars, local_state, primary, contrib>>

\* The endpoint answers 200 with a body that response.json() cannot parse.
HttpBadJson ==
    /\ pc = "request"
    /\ SendRequest
    /\ BadJsonReturn
    /\ UNCHANGED <<local_searcher, calls, local_call, dbVars, handler, searchVars, response, req_type,
                   detailVars, local_state, primary, contrib>>

\* Lyric texts of the lyric bodies: lines separated by "\n".
LyricTexts == {<<>>, <<" ", "\n">>, <<"a", " ", "b">>, <<"a", "\n", "\n", "b">>}

\* The JSON bodies an endpoint may answer to a request of the given type.
Bodies(types) ==
    IF types = "search" THEN SearchBodies
    ELSE IF types = "lyric" THEN {DictBody(t) : t \in LyricTexts} \cup {ListBody(<<>>)}
    ELSE {DictBody(<<>>)}

\* The endpoint answers 200 with JSON: data is returned, the cursor stays.
HttpOk ==
    /\ pc = "request"
    /\ SendRequest
    /\ \E body \in Bodies(req_type) : retval' = body
    /\ pc' = "returned"
    /\ UNCHANGED <<serverVars, calls, local_call, dbVars, handler, searchVars, response, req_type,
                   retry_count, detailVars, local_state, primary, contrib>>

\* ------------------------------------------------------------------ /search

\* Faulty variant: the platform is not checked.
CallSearchMusic_NoPlatformCheck(source) == CallMakeRequest("search")
\* music_api.search_music(query, source, ...) up to its call of _make_request:
\* an unsupported platform returns [] without a request.
CallSearchMusic(source) ==
    IF source \in Platforms
    THEN CallMakeRequest("search")
    ELSE /\ req_type' = "search"
         /\ retry_count' = 0
         /\ retval' = NoneVal
         /\ tried' = <<>>
         /\ pc' = "returned"

\* The outcome of the three staged queries, before the except clause.
LocalRun(songQ, singerQ, geciQ, lim) ==
    LET s1 == IF songQ.raise THEN Raises
              ELSE Hits(MapLocal(PySlice(songQ.hits, lim)))
        s2 == LocalStage(s1, singerQ, lim)
    IN  LocalStage(s2, geciQ, lim)

\* Faulty variant: the threshold test is <= instead of <.
OnlineNeeded_AtMost(results) == Len(results) <= LocalEnough
\* if len(local_results) < 5: the online platforms are searched
OnlineNeeded(results) == Len(results) < LocalEnough

\* Faulty variant: the platform is not tested.
NeedsBackup_AnyPlatform(results, platform) == results = <<>>
\* if not results and src == 'netease': the backup search is tried
NeedsBackup(results, platform) == results = <<>> /\ platform = "netease"

\* Faulty variant: q is tested before it is stripped.
SearchBegin_NoStrip ==
    /\ pc = "idle"
    /\ \E q \in RawQueries, lim \in Limits :
         /\ query' = Strip(q)
         /\ limit' = lim
         /\ IF q = <<>>
            THEN pc' = "done" /\ response' = ErrorResponse
            ELSE pc' = "s_local" /\ UNCHANGED response
    /\ handler' = "search"
    /\ UNCHANGED <<serverVars, calls, local_call, dbVars, local_results, online_results, src, callVars,
                   detailVars, histVars>>
\* /search reads q and limit; an empty query is answered at once.
SearchBegin ==
    /\ pc = "idle"
    /\ \E q \in RawQueries, lim \in Limits :
         /\ query' = Strip(q)
         /\ limit' = lim
         /\ IF Strip(q) = <<>>
            THEN pc' = "done" /\ response' = ErrorResponse
            ELSE pc' = "s_local" /\ UNCHANGED response
    /\ handler' = "search"
    /\ UNCHANGED <<serverVars, calls, local_call, dbVars, local_results, online_results, src, callVars,
                   detailVars, histVars>>

\* local_results = search_local_elasticsearch(query, limit), then the choice
\* between the online platforms and the dedup.
SearchLocal ==
    /\ pc = "s_local"
    /\ \E songQ \in SongQueryOutcomes, singerQ \in SingerQueryOutcomes,
          geciQ \in GeciQueryOutcomes :
         LET results == search_local_elasticsearch(local_searcher, songQ, singerQ,
                                                   geciQ, limit)
         IN  /\ local_results' = results
             /\ local_state' = IF ~local_searcher THEN "none"
                               ELSE IF LocalRun(songQ, singerQ, geciQ, limit).raise
                                    THEN "raised" ELSE "ok"
             /\ IF OnlineNeeded(results)
                THEN CallSearchMusic(Sources[1])
                ELSE pc' = "s_dedup" /\ UNCHANGED <<callVars, tried>>
    /\ trace' = Append(trace, Event("local", "local", 0))
    /\ UNCHANGED <<serverVars, calls, local_call, dbVars, handler, query, limit, online_results, src,
                   response, detailVars, primary, contrib>>

\* The end of one turn of the for loop: the results of the platform are added to
\* online_results and the next platform is searched, or the loop ends.
AfterPlatform(results) ==
    /\ online_results' = online_results \o results
    /\ contrib' = [contrib EXCEPT ![Sources[src]] = results]
    /\ IF src < Len(Sources)
       THEN src' = src + 1 /\ CallSearchMusic(Sources[src + 1])
       ELSE pc' = "s_dedup" /\ UNCHANGED <<src, callVars, tried>>

\* search_music builds its results from what _make_request returned; /search
\* then goes to the backup or to the next platform.
SearchMusicReturn ==
    /\ pc = "returned"
    /\ handler = "search"
    /\ LET platform == Sources[src]
           results == SearchMusicResults(retval, platform)
       IN  /\ primary' = [primary EXCEPT ![platform] = results]
           /\ IF NeedsBackup(results, platform)
              THEN /\ pc' = "s_backup"
                   /\ UNCHANGED <<online_results, src, contrib, callVars, tried>>
              ELSE AfterPlatform(results)
    /\ UNCHANGED <<serverVars, calls, local_call, dbVars, handler, query, limit, local_results, response,
                   detailVars, trace, local_state>>

\* backup_searcher.search_netease_backup(query, 10): one request to music.163.com.
SearchBackup ==
    /\ pc = "s_backup"
    /\ trace' = Append(trace, Event("backup", Sources[src], 0))
    /\ \E body \in BackupBodies : AfterPlatform(BackupResults(body, OnlineCount))
    /\ UNCHANGED <<serverVars, calls, local_call, dbVars, handler, query, limit, local_results, response,
                   detailVars, local_state, primary>>

\* The dedup loop, the demo fallback and the JSON response.
SearchRespond ==
    /\ pc = "s_dedup"
    /\ response' = SearchResponse(FinalResults(AllResults(local_results, online_results),
                                               query, limit))
    /\ pc' = "done"
    /\ UNCHANGED <<serverVars, calls, local_call, dbVars, handler, searchVars, callVars, detailVars,
                   histVars>>

\* The response is sent; the server waits for the next request.
Finish ==
    /\ pc = "done"
    /\ RequestReset
    /\ UNCHANGED <<serverVars, calls, local_call, dbVars>>

Next ==
    \/ SearchBegin
    \/ SearchLocal
    \/ HttpException
    \/ HttpNon200
    \/ HttpBadJson
    \/ HttpOk
    \/ SearchMusicReturn
    \/ SearchBackup
    \/ SearchRespond
    \/ Finish

Spec == Init /\ [][Next]_vars

\* ------------------------------------------------------------- /song_detail

\* Values of the id parameter (0: missing) and of the source parameter.
DetailIds == {0, 1}
DetailSources == {"local", "netease"}

\* What local_searcher.es.get answers: it raises, or a document with its geci.
EsGetOutcomes == {[raise |-> TRUE, geci |-> <<>>]}
                 \cup {[raise |-> FALSE, geci |-> t] : t \in LyricTexts}

RECURSIVE SplitLines(_)
\* lyric_text.split('\n')
SplitLines(t) ==
    LET breaks == {i \in 1..Len(t) : t[i] = "\n"}
    IN  IF breaks = {} THEN <<t>>
        ELSE LET k == CHOOSE i \in breaks : \A j \in breaks : i <= j
             IN  <<SubSeq(t, 1, k - 1)>> \o SplitLines(SubSeq(t, k + 1, Len(t)))

\* len([line for line in lyric_text.split('\n') if line.strip()])
LyricLines(t) ==
    LET lines == SplitLines(t)
    IN  Cardinality({i \in 1..Len(lines) : Strip(lines[i]) # <<>>})

\* len(lyric_text.replace('\n', '').replace(' ', ''))
WordCount(t) == Cardinality({i \in 1..Len(t) : t[i] \notin {"\n", " "}})

\* bool(lyric_text.strip())
HasLyrics(t) == Strip(t) # <<>>

\* song_detail of the local branch, reduced to id, source and analysis.
LocalDetail(id, t) ==
    [id |-> id, source |-> "local", lyric_lines |-> LyricLines(t),
     word_count |-> WordCount(t), has_lyrics |-> HasLyrics(t)]

\* song_detail of the online branch: the counts are 0 for an empty lyric_text.
OnlineDetail(id, source, t) ==
    [id |-> id, source |-> source,
     lyric_lines |-> IF t # <<>> THEN LyricLines(t) ELSE 0,
     word_count |-> IF t # <<>> THEN WordCount(t) ELSE 0,
     has_lyrics |-> HasLyrics(t)]

\* get_lyrics: the 'lyric' of a non-empty dict, '' for anything else.
LyricOf(data) == IF data.kind = "dict" THEN data.lyric ELSE <<>>

BusyThreads == {s \in Slots : threads[s].busy}

\* sqlite stores a Python bool as the integer 1 or 0.
SqlBool(b) == IF b THEN 1 ELSE 0

\* The row INSERT OR REPLACE writes for song_data, under a fresh AUTOINCREMENT id.
RowOf(rowid, d) ==
    [id |-> rowid, song_id |-> d.id, source |-> d.source,
     lyric_lines |-> d.lyric_lines, word_count |-> d.word_count,
     has_lyrics |-> SqlBool(d.has_lyrics)]

\* INSERT OR REPLACE under UNIQUE(song_id, source): a row of the same song and
\* source is deleted before the new row is inserted.
InsertOrReplace(table, row) ==
    {r \in table : ~(r.song_id = row.song_id /\ r.source = row.source)} \cup {row}

\* /song_detail reads id and source and takes the local or the online branch.
\* New requests stop when the row ids or the thread slots of the model run out.
DetailBegin ==
    /\ pc = "idle"
    /\ rowid_seq + Cardinality(BusyThreads) < MaxRowId
    /\ BusyThreads # Slots
    /\ \E id \in DetailIds, source \in DetailSources :
         /\ args' = [id |-> id, source |-> source]
         /\ IF id = 0
            THEN /\ pc' = "done"
                 /\ response' = ErrorResponse
                 /\ UNCHANGED <<callVars, tried>>
            ELSE IF source = "local" /\ local_searcher
            THEN /\ pc' = "d_local"
                 /\ UNCHANGED <<response, callVars, tried>>
            ELSE /\ CallMakeRequest("lyric")
                 /\ UNCHANGED response
    /\ handler' = "detail"
    /\ UNCHANGED <<serverVars, calls, local_call, dbVars, searchVars, lyric_text, song_detail, trace,
                   local_state, primary, contrib>>

\* The local branch: es.get, the analysis of geci, song_detail.
DetailLocal ==
    /\ pc = "d_local"
    /\ \E got \in EsGetOutcomes :
         IF got.raise
         THEN /\ pc' = "done"
              /\ response' = ErrorResponse
              /\ UNCHANGED <<lyric_text, song_detail>>
         ELSE /\ pc' = "d_save"
              /\ lyric_text' = got.geci
              /\ song_detail' = LocalDetail(args.id, got.geci)
              /\ UNCHANGED response
    /\ UNCHANGED <<serverVars, calls, local_call, dbVars, handler, searchVars, callVars, args, histVars>>

\* The online branch after music_api.get_lyrics: lyric_text, then get_cover.
GetLyricsReturn ==
    /\ pc = "returned"
    /\ handler = "detail"
    /\ req_type = "lyric"
    /\ lyric_text' = LyricOf(retval)
    /\ CallMakeRequest("pic")
    /\ UNCHANGED <<serverVars, calls, local_call, dbVars, handler, searchVars, response, args, song_detail,
                   trace, local_state, primary, contrib>>

\* The online branch after music_api.get_cover: the analysis and song_detail.
GetCoverReturn ==
    /\ pc = "returned"
    /\ handler = "detail"
    /\ req_type = "pic"
    /\ song_detail' = OnlineDetail(args.id, args.source, lyric_text)
    /\ pc' = "d_save"
    /\ UNCHANGED <<serverVars, calls, local_call, dbVars, handler, searchVars, response, callVars, args,
                   lyric_text, histVars>>

\* Faulty variant: the row is written before add_analyzed_song returns.
AddAnalyzedSong_Synchronous ==
    /\ pc = "d_save"
    /\ rowid_seq' = rowid_seq + 1
    /\ analyzed_songs' = InsertOrReplace(analyzed_songs, RowOf(rowid_seq + 1, song_detail))
    /\ pc' = "d_respond"
    /\ UNCHANGED <<serverVars, calls, local_call, threads, handler, searchVars, response,
                   callVars, detailVars, histVars>>
\* add_analyzed_song(song_detail): the save_to_db thread is started, True is
\* returned.
AddAnalyzedSong ==
    /\ pc = "d_save"
    /\ \E s \in Slots \ BusyThreads :
         threads' = [threads EXCEPT ![s] = [busy |-> TRUE, data |-> song_detail]]
    /\ pc' = "d_respond"
    /\ UNCHANGED <<serverVars, calls, local_call, analyzed_songs, rowid_seq, handler, searchVars, response,
                   callVars, detailVars, histVars>>

\* return jsonify(song_detail)
DetailRespond ==
    /\ pc = "d_respond"
    /\ response' = DetailResponse(song_detail)
    /\ pc' = "done"
    /\ UNCHANGED <<serverVars, calls, local_call, dbVars, handler, searchVars, callVars, detailVars,
                   histVars>>

\* save_to_db of the thread in slot s: the row is written and committed.
SaveToDb(s) ==
    /\ threads[s].busy
    /\ rowid_seq' = rowid_seq + 1
    /\ analyzed_songs' = InsertOrReplace(analyzed_songs,
                                         RowOf(rowid_seq + 1, threads[s].data))
    /\ threads' = [threads EXCEPT ![s] = IdleThread]
    /\ UNCHANGED <<serverVars, calls, local_call, pc, handler, searchVars, response, callVars, detailVars,
                   histVars>>

\* save_to_db of the thread in slot s fails: the exception is printed, no row
\* is written.
SaveFails(s) ==
    /\ threads[s].busy
    /\ threads' = [threads EXCEPT ![s] = IdleThread]
    /\ UNCHANGED <<serverVars, calls, local_call, analyzed_songs, rowid_seq, pc, handler, searchVars,
                   response, callVars, detailVars, histVars>>

SaveThread == \E s \in Slots : SaveToDb(s)
SaveThreadFails == \E s \in Slots : SaveFails(s)
HttpAnswer == HttpException \/ HttpNon200 \/ HttpBadJson \/ HttpOk

\* The steps of a /song_detail handler that has read its request.
DetailHandlerStep ==
    \/ DetailLocal
    \/ HttpAnswer
    \/ GetLyricsReturn
    \/ GetCoverReturn
    \/ AddAnalyzedSong
    \/ DetailRespond

DetailNext ==
    \/ DetailBegin
    \/ DetailLocal
    \/ HttpException
    \/ HttpNon200
    \/ HttpBadJson
    \/ HttpOk
    \/ GetLyricsReturn
    \/ GetCoverReturn
    \/ AddAnalyzedSong
    \/ DetailRespond
    \/ SaveThread
    \/ SaveThreadFails
    \/ Finish

\* /song_detail requests one after the other, with the save threads running
\* beside them.
DetailSpec == Init /\ [][DetailNext]_vars

DetailSavedNext ==
    \/ DetailBegin
    \/ DetailLocal
    \/ HttpException
    \/ HttpNon200
    \/ HttpBadJson
    \/ HttpOk
    \/ GetLyricsReturn
    \/ GetCoverReturn
    \/ AddAnalyzedSong
    \/ DetailRespond
    \/ SaveThread
    \/ Finish

\* The same without failing writes, every started save thread being scheduled
\* and every HTTP call of the handler returning.
DetailSavedSpec ==
    /\ Init
    /\ [][DetailSavedNext]_vars
    /\ \A s \in Slots : WF_vars(SaveToDb(s))
    /\ WF_vars(DetailHandlerStep)

\* --------------------------------------------------------------- /song_info

\* Values of the source parameter of /song_info: a platform of
\* music_api.platforms and one that is not.
InfoSources == {"netease", "kugou"}

InfoResponse(song) ==
    [kind |-> "json", error |-> FALSE, results |-> <<song>>, detail |-> NoDetail]

\* /song_info reads id and source and calls music_api.search_music(song_id,
\* source, 1, 1); a missing id is answered at once.
InfoBegin ==
    /\ pc = "idle"
    /\ \E id \in DetailIds, source \in InfoSources :
         /\ args' = [id |-> id, source |-> source]
         /\ IF id = 0
            THEN /\ pc' = "done"
                 /\ response' = ErrorResponse
                 /\ UNCHANGED <<callVars, tried>>
            ELSE /\ CallSearchMusic(source)
                 /\ UNCHANGED response
    /\ handler' = "info"
    /\ UNCHANGED <<serverVars, calls, local_call, dbVars, searchVars, lyric_text, song_detail, trace,
                   local_state, primary, contrib>>

\* search_music returned: the first song is answered, or the error of no song.
InfoReturn ==
    /\ pc = "returned"
    /\ handler = "info"
    /\ LET results == SearchMusicResults(retval, args.source)
       IN  response' = IF results # <<>> THEN InfoResponse(results[1])
                       ELSE ErrorResponse
    /\ pc' = "done"
    /\ UNCHANGED <<serverVars, calls, local_call, dbVars, handler, searchVars, callVars, detailVars,
                   histVars>>

InfoNext ==
    \/ InfoBegin
    \/ HttpException
    \/ HttpNon200
    \/ HttpBadJson
    \/ HttpOk
    \/ InfoReturn
    \/ Finish

\* /song_info requests one after the other.
InfoSpec == Init /\ [][InfoNext]_vars

\* ----------------------------------------------------------------- /suggest

\* search_local_elasticsearch(query, 3) of /suggest
SuggestLocalCount == 3
\* len(query) < 2: shorter queries get no suggestions
SuggestMinLen == 2

\* Raw values of the q parameter of /suggest: one character, two characters
\* with whitespace around them, three characters.
SuggestQueries == {<<"q">>, <<" ", "q", "q", " ">>, <<"q", "q", "q">>}

\* key = f"{name_str}-{artist_str}".lower(): the name is stripped, the artist
\* is not.
SuggestKey(song) == Lower(Strip(song.name) \o <<"-">> \o ArtistStr(song.artist))

\* The suggestion dict built from a song: name_str and artist_str.
Suggestion(song) ==
    [song EXCEPT !.name = Strip(song.name), !.artist = StrVal(ArtistStr(song.artist))]

RECURSIVE SuggestLoop(_, _, _, _, _)
\* The dedup loop of /suggest from position i on.
SuggestLoop(all, i, unique, seen, lim) ==
    IF i > Len(all) THEN unique
    ELSE LET song == all[i]
             key == SuggestKey(song)
         IN  IF key \notin seen /\ Strip(song.name) # <<>>
             THEN LET u2 == Append(unique, Suggestion(song))
                  IN  IF Len(u2) >= lim THEN u2
                      ELSE SuggestLoop(all, i + 1, u2, seen \cup {key}, lim)
             ELSE SuggestLoop(all, i + 1, unique, seen, lim)

\* Faulty variant: the loop never breaks at limit.
Suggestions_NoBreak(all, lim) == SuggestLoop(all, 1, <<>>, {}, Len(all) + 1)
\* unique_suggestions of /suggest after the loop
Suggestions(all, lim) == SuggestLoop(all, 1, <<>>, {}, lim)

\* if len(all_results) < limit: netease is searched, else the dedup follows.
SuggestOnline(results, lim) ==
    IF Len(results) < lim
    THEN CallSearchMusic("netease")
    ELSE pc' = "g_dedup" /\ UNCHANGED <<callVars, tried>>

\* /suggest reads q and limit; a query shorter than 2 characters is answered
\* with no suggestions; without a local searcher the netease test follows.
SuggestBegin ==
    /\ pc = "idle"
    /\ \E q \in SuggestQueries, lim \in Limits :
         /\ query' = Strip(q)
         /\ limit' = lim
         /\ IF Len(Strip(q)) < SuggestMinLen
            THEN /\ pc' = "done"
                 /\ response' = SearchResponse(<<>>)
                 /\ UNCHANGED <<callVars, tried>>
            ELSE /\ UNCHANGED response
                 /\ IF local_searcher
                    THEN pc' = "g_local" /\ UNCHANGED <<callVars, tried>>
                    ELSE SuggestOnline(<<>>, lim)
    /\ handler' = "suggest"
    /\ UNCHANGED <<serverVars, calls, local_call, dbVars, local_results, online_results,
                   src, detailVars, trace, local_state, primary, contrib>>

\* local_suggestions = search_local_elasticsearch(query, 3), then the netease
\* test.
SuggestLocal ==
    /\ pc = "g_local"
    /\ \E songQ \in SongQueryOutcomes, singerQ \in SingerQueryOutcomes,
          geciQ \in GeciQueryOutcomes :
         LET results == search_local_elasticsearch(local_searcher, songQ, singerQ,
                                                   geciQ, SuggestLocalCount)
         IN  /\ local_results' = results
             /\ local_state' = IF LocalRun(songQ, singerQ, geciQ, SuggestLocalCount).raise
                               THEN "raised" ELSE "ok"
             /\ SuggestOnline(results, limit)
    /\ trace' = Append(trace, Event("local", "local", 0))
    /\ UNCHANGED <<serverVars, calls, local_call, dbVars, handler, query, limit,
                   online_results, src, response, detailVars, primary, contrib>>

\* search_music(query, 'netease', 6, 1) returned: its songs extend all_results.
SuggestMusicReturn ==
    /\ pc = "returned"
    /\ handler = "suggest"
    /\ LET results == SearchMusicResults(retval, "netease")
       IN  /\ online_results' = results
           /\ primary' = [primary EXCEPT !["netease"] = results]
           /\ contrib' = [contrib EXCEPT !["netease"] = results]
    /\ pc' = "g_dedup"
    /\ UNCHANGED <<serverVars, calls, local_call, dbVars, handler, query, limit,
                   local_results, src, response, callVars, detailVars, trace, tried,
                   local_state>>

\* The dedup loop and the JSON response.
SuggestRespond ==
    /\ pc = "g_dedup"
    /\ response' = SearchResponse(Suggestions(AllResults(local_results, online_results),
                                              limit))
    /\ pc' = "done"
    /\ UNCHANGED <<serverVars, calls, local_call, dbVars, handler, searchVars, callVars,
                   detailVars, histVars>>

SuggestNext ==
    \/ SuggestBegin
    \/ SuggestLocal
    \/ HttpException
    \/ HttpNon200
    \/ HttpBadJson
    \/ HttpOk
    \/ SuggestMusicReturn
    \/ SuggestRespond
    \/ Finish

\* /suggest requests one after the other.
SuggestSpec == Init /\ [][SuggestNext]_vars

\* ------------------------------------------- _make_request, called concurrently

\* The variables of the one-request-at-a-time handlers.
handlerVars == <<pc, handler, searchVars, response, callVars, detailVars, histVars>>

\* A request thread calls self._make_request(params): retry_count = 0.
ThreadCall(c) ==
    /\ calls[c].at = "idle"
    /\ calls' = [calls EXCEPT ![c] = [IdleCall EXCEPT !.at = "request"]]
    /\ UNCHANGED <<serverVars, dbVars, handlerVars, local_call>>

\* api_base = self.api_endpoints[self.current_api] and requests.get raises or
\* is answered with a status other than 200: the except or else branch follows.
ThreadHttpFails(c) ==
    /\ calls[c].at = "request"
    /\ calls' = [calls EXCEPT ![c].tried = Append(@, current_api),
                              ![c].at = "load"]
    /\ UNCHANGED <<serverVars, dbVars, handlerVars, local_call>>

\* The request is answered 200 with a body that is not JSON: None is returned.
ThreadHttpBadJson(c) ==
    /\ calls[c].at = "request"
    /\ calls' = [calls EXCEPT ![c].tried = Append(@, current_api),
                              ![c].at = "returned",
                              ![c].data = FALSE]
    /\ UNCHANGED <<serverVars, dbVars, handlerVars, local_call>>

\* The request is answered 200 with JSON: the data is returned.
ThreadHttpOk(c) ==
    /\ calls[c].at = "request"
    /\ calls' = [calls EXCEPT ![c].tried = Append(@, current_api),
                              ![c].at = "returned",
                              ![c].data = TRUE]
    /\ UNCHANGED <<serverVars, dbVars, handlerVars, local_call>>

\* self.current_api = (self.current_api + 1) % len(...): the attribute is read.
ThreadLoadCursor(c) ==
    /\ calls[c].at = "load"
    /\ calls' = [calls EXCEPT ![c].loaded = current_api, ![c].at = "store"]
    /\ UNCHANGED <<serverVars, dbVars, handlerVars, local_call>>

\* Faulty variant: the cursor is stored without the modulo.
ThreadStoreCursor_NoModulo(c) ==
    /\ calls[c].at = "store"
    /\ current_api' = calls[c].loaded + 1
    /\ calls' = [calls EXCEPT
                   ![c].retry_count = @ + 1,
                   ![c].loaded = 0,
                   ![c].at = IF calls[c].retry_count + 1 >= NumEndpoints
                             THEN "returned" ELSE "request",
                   ![c].data = FALSE]
    /\ UNCHANGED <<local_searcher, dbVars, handlerVars, local_call>>
\* The attribute is written, and the call recurses with retry_count + 1, which
\* returns None once retry_count reaches len(self.api_endpoints).
ThreadStoreCursor(c) ==
    /\ calls[c].at = "store"
    /\ current_api' = (calls[c].loaded + 1) % NumEndpoints
    /\ calls' = [calls EXCEPT
                   ![c].retry_count = @ + 1,
                   ![c].loaded = 0,
                   ![c].at = IF calls[c].retry_count + 1 >= NumEndpoints
                             THEN "returned" ELSE "request",
                   ![c].data = FALSE]
    /\ UNCHANGED <<local_searcher, dbVars, handlerVars, local_call>>

\* The caller of _make_request takes the returned value; the thread is free for
\* another request.
ThreadReturn(c) ==
    /\ calls[c].at = "returned"
    /\ calls' = [calls EXCEPT ![c] = IdleCall]
    /\ UNCHANGED <<serverVars, dbVars, handlerVars, local_call>>

ThreadsNext ==
    \/ \E c \in Callers : ThreadCall(c)
    \/ \E c \in Callers : ThreadHttpFails(c)
    \/ \E c \in Callers : ThreadHttpBadJson(c)
    \/ \E c \in Callers : ThreadHttpOk(c)
    \/ \E c \in Callers : ThreadLoadCursor(c)
    \/ \E c \in Callers : ThreadStoreCursor(c)
    \/ \E c \in Callers : ThreadReturn(c)

\* Request threads of the server calling music_api._make_request side by side.
ThreadsSpec == Init /\ [][ThreadsNext]_vars

\* ------------------------------------------------ search_local_elasticsearch

\* search_local_elasticsearch(query, limit) is called and returns: the answers
\* of the three indices to the query and the limit are the inputs.
CallLocalSearch ==
    /\ \E songQ \in SongQueryOutcomes, singerQ \in SingerQueryOutcomes,
          geciQ \in GeciQueryOutcomes, lim \in Limits :
         local_call' =
            [called |-> TRUE, songQ |-> songQ, singerQ |-> singerQ, geciQ |-> geciQ,
             limit |-> lim,
             queries |-> LocalQueries(local_searcher, songQ, singerQ, geciQ, lim),
             results |-> search_local_elasticsearch(local_searcher, songQ, singerQ,
                                                    geciQ, lim)]
    /\ UNCHANGED <<serverVars, calls, dbVars, handlerVars>>

LocalNext == CallLocalSearch

\* Calls of search_local_elasticsearch, one after the other.
LocalSpec == Init /\ [][LocalNext]_vars

\* ------------------------------------- /analyzed_songs, /delete_analyzed_songs

\* min(int(limit), 50): the largest page size of /analyzed_songs
PageCap == 50
\* The password /delete_analyzed_songs compares with.
Password == "ozh02264632"

\* Tables of n rows written one after the other by save_to_db threads for n
\* different netease songs: ids and analyzed_at grow together.
TableOf(n) ==
    {[id |-> i, song_id |-> i, source |-> "netease", lyric_lines |-> 0,
      word_count |-> 0, has_lyrics |-> 0] : i \in 1..n}

RECURSIVE NewestFirst(_)
\* ORDER BY analyzed_at DESC, for rows whose analyzed_at grows with their id.
NewestFirst(table) ==
    IF table = {} THEN <<>>
    ELSE LET r == CHOOSE x \in table : \A y \in table : y.id <= x.id
         IN  <<r>> \o NewestFirst(table \ {r})

\* LIMIT ? OFFSET ? of sqlite: a negative OFFSET counts as 0, a negative LIMIT
\* is no limit.
SqlLimitOffset(rows, lim, off) ==
    LET skip == Min(Max(off, 0), Len(rows))
        rest == SubSeq(rows, skip + 1, Len(rows))
    IN  IF lim < 0 THEN rest ELSE SubSeq(rest, 1, Min(lim, Len(rest)))

\* The dict get_analyzed_songs builds for a row.
SongOfRow(r) ==
    [record_id |-> r.id, id |-> r.song_id, source |-> r.source,
     lyric_lines |-> r.lyric_lines, word_count |-> r.word_count,
     has_lyrics |-> r.has_lyrics = 1]

\* get_analyzed_songs(limit, offset): 'songs' and 'total'; an sqlite error gives
\* no songs and total 0.
get_analyzed_songs(table, lim, off, dbRaises) ==
    IF dbRaises \/ Cardinality(table) = 0
    THEN [songs |-> <<>>, total |-> 0]
    ELSE LET page == SqlLimitOffset(NewestFirst(table), lim, off)
         IN  [songs |-> [i \in 1..Len(page) |-> SongOfRow(page[i])],
              total |-> Cardinality(table)]

\* limit = min(int(request.args.get('limit', 20)), 50)
PageLimit(lim) == Min(lim, PageCap)

AdminResponse(success, data) ==
    [kind |-> "json", error |-> ~success, results |-> data, detail |-> NoDetail]

\* The answer of /analyzed_songs: total_pages divides by limit when total > 0,
\* and the ZeroDivisionError of limit = 0 is answered with success false.
AnalyzedSongsAnswer(table, page, lim, dbRaises) ==
    LET capped == PageLimit(lim)
        result == get_analyzed_songs(table, capped, (page - 1) * capped, dbRaises)
    IN  IF result.total > 0 /\ capped = 0
        THEN AdminResponse(FALSE, <<>>)
        ELSE AdminResponse(TRUE, result.songs)

\* Faulty variant: the password is not compared.
DeleteOutcome_NoPassword(table, body, dbRaises) ==
    IF ~body.json THEN [success |-> FALSE, table |-> table]
    ELSE IF body.song_ids = {} THEN [success |-> FALSE, table |-> table]
    ELSE IF dbRaises THEN [success |-> FALSE, table |-> table]
    ELSE [success |-> TRUE, table |-> {r \in table : r.id \notin body.song_ids}]
\* delete_analyzed_songs: a request without a JSON body raises at data.get; a
\* wrong password and an empty song_ids are refused; DELETE ... WHERE id IN
\* removes the rows whose id is listed, or raises before the commit.
DeleteOutcome(table, body, dbRaises) ==
    IF ~body.json THEN [success |-> FALSE, table |-> table]
    ELSE IF body.password # Password THEN [success |-> FALSE, table |-> table]
    ELSE IF body.song_ids = {} THEN [success |-> FALSE, table |-> table]
    ELSE IF dbRaises THEN [success |-> FALSE, table |-> table]
    ELSE [success |-> TRUE, table |-> {r \in table : r.id \notin body.song_ids}]

\* Values of the page and limit parameters of /analyzed_songs.
Pages == 0..MaxPage
PageLimits == ((0 - MaxNegLimit)..1) \cup {PageCap, PageCap + 1}

\* Bodies of /delete_analyzed_songs: none, or password (a missing one is not
\* the password) and song_ids.
DeleteBodies ==
    {[json |-> FALSE, password |-> "", song_ids |-> {}]}
    \cup {[json |-> TRUE, password |-> p, song_ids |-> ids] :
             p \in {Password, ""}, ids \in {{}, {1}, {1, 2}, {PageCap + 1}}}

\* /analyzed_songs
GetAnalyzedSongsApi ==
    /\ pc = "idle"
    /\ \E page \in Pages, lim \in PageLimits, dbRaises \in BOOLEAN :
         /\ args' = [page |-> page, limit |-> lim]
         /\ response' = AnalyzedSongsAnswer(analyzed_songs, page, lim, dbRaises)
    /\ handler' = "list"
    /\ pc' = "done"
    /\ UNCHANGED <<serverVars, calls, local_call, dbVars, searchVars, callVars, lyric_text, song_detail,
                   histVars>>

\* /delete_analyzed_songs
DeleteAnalyzedSongs ==
    /\ pc = "idle"
    /\ \E body \in DeleteBodies, dbRaises \in BOOLEAN :
         LET out == DeleteOutcome(analyzed_songs, body, dbRaises)
         IN  /\ args' = body
             /\ analyzed_songs' = out.table
             /\ response' = AdminResponse(out.success, <<>>)
    /\ handler' = "delete"
    /\ pc' = "done"
    /\ UNCHANGED <<serverVars, calls, local_call, rowid_seq, threads, searchVars, callVars, lyric_text,
                   song_detail, histVars>>

\* The server with a table of up to PageCap + MaxExtraRows analyzed songs.
StoreInit ==
    /\ local_searcher \in BOOLEAN
    /\ current_api = 0
    /\ \E n \in 0..(PageCap + MaxExtraRows) :
         analyzed_songs = TableOf(n) /\ rowid_seq = n
    /\ threads = [s \in Slots |-> IdleThread]
    /\ pc = "idle"
    /\ handler = "none"
    /\ query = <<>>
    /\ limit = 0
    /\ local_results = <<>>
    /\ online_results = <<>>
    /\ src = 1
    /\ response = NoResponse
    /\ req_type = "none"
    /\ retry_count = 0
    /\ retval = NoneVal
    /\ args = NoArgs
    /\ lyric_text = <<>>
    /\ song_detail = NoDetail
    /\ trace = <<>>
    /\ tried = <<>>
    /\ local_state = "pending"
    /\ primary = NoSongs
    /\ contrib = NoSongs
    /\ calls = [c \in Callers |-> IdleCall]
    /\ local_call = NoLocalCall

StoreNext ==
    \/ GetAnalyzedSongsApi
    \/ DeleteAnalyzedSongs
    \/ Finish

\* The listing and the deletion of analyzed songs, one request at a time.
StoreSpec == StoreInit /\ [][StoreNext]_vars

ListingNext ==
    \/ DetailBegin
    \/ DetailLocal
    \/ HttpException
    \/ HttpNon200
    \/ HttpBadJson
    \/ HttpOk
    \/ GetLyricsReturn
    \/ GetCoverReturn
    \/ AddAnalyzedSong
    \/ DetailRespond
    \/ SaveThread
    \/ SaveThreadFails
    \/ GetAnalyzedSongsApi
    \/ Finish

\* /song_detail and /analyzed_songs requests one after the other, with the save
\* threads running beside them.
ListingSpec == Init /\ [][ListingNext]_vars

\* ------------------------------------------------------------ /search claims

\* The request is a /search with a non-empty query that has been answered.
SearchAnswered == pc = "done" /\ handler = "search" /\ query # <<>>

\* all_results of the answered request, rebuilt from what each source returned.
Gathered == local_results \o contrib["netease"] \o contrib["qq"]

Results == response.results

SameSong(a, b) == NameKey(a) = NameKey(b) /\ ArtistKey(a) = ArtistKey(b)

IsDemo(song) == song.source = "demo"
HasDemo == \E i \in 1..Len(Results) : IsDemo(Results[i])
HasReal == \E i \in 1..Len(Results) : ~IsDemo(Results[i])

HttpEvents(platform) ==
    {i \in 1..Len(trace) : trace[i].ev = "http" /\ trace[i].platform = platform}
BackupEvents == {i \in 1..Len(trace) : trace[i].ev = "backup"}
OutboundEvents == {i \in 1..Len(trace) : trace[i].ev \in {"http", "backup"}}

\* C1: the results of /search never hold two songs whose normalized name and
\* normalized artist are both equal.
C1_NoDuplicateResults ==
    SearchAnswered =>
        \A i, j \in 1..Len(Results) :
            i < j => ~SameSong(Results[i], Results[j])

\* C1 witness: two gathered songs had equal normalized name and artist, and the
\* answer holds real songs.
C1_Witness ==
    /\ SearchAnswered
    /\ HasReal
    /\ \E i, j \in 1..Len(Gathered) :
         i < j /\ SameSong(Gathered[i], Gathered[j]) /\ NameKey(Gathered[i]) # <<>>

\* C2 as stated: the number of results of /search is at most limit, for every
\* integer limit.
C2_AtMostLimit ==
    SearchAnswered => Len(Results) <= limit

\* C2 amended: the number of results is at most limit when limit >= 2, and at
\* most 2 otherwise.
C2_AtMostLimitFromTwo ==
    SearchAnswered => Len(Results) <= Max(limit, 2)

\* C2 witness: more distinct songs were gathered than limit >= 2 allows, and the
\* answer holds exactly limit songs.
C2_Witness ==
    /\ SearchAnswered
    /\ limit >= 2
    /\ Len(Results) = limit
    /\ Cardinality({DedupKey(Gathered[i]) : i \in 1..Len(Gathered)}) > limit + 1

\* C3: the local lookup precedes every outbound request, and the platforms are
\* queried exactly when the local lookup returned fewer than 5 songs.
C3_LocalFirstOnlineIffFewer ==
    handler = "search" =>
        /\ OutboundEvents # {} => trace[1].ev = "local"
        /\ \A i \in 2..Len(trace) : trace[i].ev # "local"
        /\ Len(local_results) >= LocalEnough => OutboundEvents = {}
        /\ (pc \in {"s_dedup", "done"} /\ query # <<>> /\ Len(local_results) < LocalEnough)
              => (HttpEvents("netease") # {} /\ HttpEvents("qq") # {})

\* C3 witness: an answered request whose local lookup returned 5 or more songs.
C3_Witness ==
    SearchAnswered /\ Len(local_results) >= LocalEnough /\ OutboundEvents = {}

PlatformRank(p) == CASE p = "local" -> 0 [] p = "netease" -> 1 [] OTHER -> 2

PositionIn(list, song) ==
    CHOOSE k \in 1..Len(list) :
        list[k].id = song.id /\ list[k].platform = song.platform

ListOf(platform) == IF platform = "local" THEN local_results ELSE contrib[platform]

\* C4: in the results local songs precede online songs, netease songs precede
\* qq songs, songs of one source keep the order of that source, and the song
\* kept for a dedup key is the earliest gathered song with that key.
C4_SourceOrderKept ==
    (SearchAnswered /\ ~HasDemo) =>
        /\ \A i \in 1..Len(Results) :
             \E k \in 1..Len(Gathered) :
                /\ Gathered[k].id = Results[i].id
                /\ Gathered[k].platform = Results[i].platform
                /\ Gathered[k].name = Results[i].name
                /\ \A m \in 1..(k - 1) : DedupKey(Gathered[m]) # DedupKey(Gathered[k])
        /\ \A i, j \in 1..Len(Results) :
             i < j =>
               /\ PlatformRank(Results[i].platform) <= PlatformRank(Results[j].platform)
               /\ Results[i].platform = Results[j].platform =>
                     PositionIn(ListOf(Results[i].platform), Results[i])
                        < PositionIn(ListOf(Results[j].platform), Results[j])

\* C4 witness: the answer holds a local, a netease and a qq song, and a gathered
\* song was dropped.
C4_Witness ==
    /\ SearchAnswered
    /\ \A p \in {"local", "netease", "qq"} :
         \E i \in 1..Len(Results) : Results[i].platform = p
    /\ Len(Gathered) > Len(Results)
    /\ Len(Results) < limit

\* C5: one call of _make_request contacts each endpoint at most once, sends at
\* most 3 requests, and has returned once 3 requests were sent.
C5_EachEndpointOnce ==
    /\ Len(tried) <= NumEndpoints
    /\ \A i, j \in 1..Len(tried) : i < j => tried[i] # tried[j]
    /\ \A i \in 1..Len(tried) : tried[i] \in Endpoints
    /\ pc = "request" => Len(tried) < NumEndpoints
    /\ Len(tried) = NumEndpoints => pc # "request"

\* C5 witness: a call that returned after it contacted all three endpoints.
C5_Witness == pc = "returned" /\ Len(tried) = NumEndpoints

\* C6 as stated: _make_request returns None only after every endpoint was tried.
C6_NoneOnlyAfterAllTried ==
    (pc = "returned" /\ retval = NoneVal) =>
        {tried[i] : i \in 1..Len(tried)} = Endpoints

\* C8: when the local searcher is missing or a query of it raises, the local
\* lookup yields no songs, both platforms are searched, and the answer is no
\* error but the deduplicated online songs (or the demo songs for none).
C8_LocalOptional ==
    (handler = "search" /\ local_state \in {"none", "raised"}) =>
        /\ local_results = <<>>
        /\ pc = "done" =>
             /\ ~response.error
             /\ HttpEvents("netease") # {} /\ HttpEvents("qq") # {}
             /\ \A i \in 1..Len(Results) :
                  Results[i].platform \in {"netease", "qq", "demo"}
             /\ \A i, j \in 1..Len(Results) : i < j => ~SameSong(Results[i], Results[j])
             /\ Len(Results) < limit =>
                  \A k \in 1..Len(Gathered) :
                     NameKey(Gathered[k]) # <<>> =>
                        \E i \in 1..Len(Results) :
                           DedupKey(Results[i]) = DedupKey(Gathered[k])

\* C8 witness: a query of the local index raised and the answer holds online songs.
C8_Witness ==
    /\ SearchAnswered
    /\ local_state = "raised"
    /\ \E i \in 1..Len(Results) : Results[i].platform = "qq"
    /\ \E i \in 1..Len(Results) : Results[i].platform = "netease"

\* C9: the backup search runs only for netease, after at least one proxy request
\* for netease, and only when the proxy search returned no netease song.
C9_BackupOnlyForEmptyNetease ==
    handler = "search" =>
        /\ \A i \in BackupEvents :
             /\ trace[i].platform = "netease"
             /\ primary["netease"] = <<>>
             /\ \E k \in HttpEvents("netease") : k < i
        /\ Cardinality(BackupEvents) <= 1
        /\ pc = "s_backup" => (Sources[src] = "netease" /\ primary["netease"] = <<>>)

\* C9 witness: an answered request that used the backup search and then searched qq.
C9_Witness ==
    SearchAnswered /\ BackupEvents # {} /\ primary["qq"] # <<>>

\* C10: the answer of /search holds demo songs exactly when no gathered song
\* survived the dedup, and never demo songs next to real ones.
C10_DemoIffNothingReal ==
    (SearchAnswered /\ ~response.error) =>
        /\ HasDemo <=> (\A k \in 1..Len(Gathered) : NameKey(Gathered[k]) = <<>>)
        /\ ~(HasDemo /\ HasReal)
        /\ HasDemo \/ HasReal

\* C10 witness: songs were gathered, none survived, and the answer is demo songs.
C10_Witness ==
    SearchAnswered /\ HasDemo /\ Len(Gathered) > 0

\* -------------------------------------------------------- /song_detail claims

\* The song_detail values a /song_detail request can answer with.
DetailValues ==
    {LocalDetail(id, t) : id \in DetailIds \ {0}, t \in LyricTexts}
    \cup {OnlineDetail(id, source, t) :
            id \in DetailIds \ {0}, source \in DetailSources, t \in LyricTexts}

\* The table holds a row of the song and source of d with the analysis of d.
RowMatches(d) ==
    \E r \in analyzed_songs :
        /\ r.song_id = d.id
        /\ r.source = d.source
        /\ r.lyric_lines = d.lyric_lines
        /\ r.word_count = d.word_count
        /\ (r.has_lyrics = 1) = d.has_lyrics

\* /song_detail is at its return statement with the song detail d: the thread
\* was started, the answer is the next step of the handler.
Returning(d) == pc = "d_respond" /\ song_detail = d

\* C7 as stated: from the return of a song detail by /song_detail on, the table
\* eventually holds a row of that song and source with the analysis of the
\* answer (every save thread is scheduled and no write fails).
C7_EventuallySaved ==
    \A d \in DetailValues : Returning(d) ~> RowMatches(d)

\* C11: a /search whose q is missing, empty or only whitespace is answered with
\* an error and no results, without a local lookup, without an outbound request
\* and with current_api left as it was.
C11_EmptyQueryRejected ==
    /\ [](handler = "search" /\ query = <<>> =>
            /\ pc = "done"
            /\ response.error
            /\ response.results = <<>>
            /\ trace = <<>>
            /\ local_state = "pending")
    /\ [][(handler' = "search" /\ query' = <<>>) => current_api' = current_api]_vars

\* C11 witness: an empty query is answered after earlier requests moved the cursor.
C11_Witness ==
    pc = "done" /\ handler = "search" /\ query = <<>> /\ response.error /\ current_api # 0

\* C18 as stated: the dedup of /search drops a song only if an earlier gathered
\* song has the same normalized name and the same normalized artist (an answer
\* shorter than limit dropped nothing for the limit; songs without a name are
\* no songs).
C18_DroppedOnlyAsSameSong ==
    (SearchAnswered /\ ~HasDemo /\ Len(Results) < limit) =>
        \A k \in 1..Len(Gathered) :
            (/\ NameKey(Gathered[k]) # <<>>
             /\ \A i \in 1..Len(Results) :
                   ~(Results[i].id = Gathered[k].id
                     /\ Results[i].platform = Gathered[k].platform))
            => \E m \in 1..(k - 1) : SameSong(Gathered[m], Gathered[k])

\* C16: without concurrency, a call of _make_request that returns data leaves
\* current_api at the endpoint that produced it, a call whose three requests all
\* failed with an exception or a status other than 200 leaves current_api where
\* it was before the call, the cursor moves only inside a call, and a call
\* sends its first request to the endpoint current_api names.
C16_StickyFailover ==
    /\ []((pc = "returned" /\ retval # NoneVal) =>
             (tried # <<>> /\ current_api = tried[Len(tried)]))
    /\ []((pc = "returned" /\ retry_count = NumEndpoints) =>
             (Len(tried) = NumEndpoints /\ current_api = tried[1]))
    /\ [][pc # "request" => current_api' = current_api]_vars
    /\ [][(tried = <<>> /\ tried' # <<>>) => tried'[1] = current_api]_vars

\* C16 witness: a call that started at the endpoint an earlier call had left the
\* cursor on, failed there and returned data from the next endpoint.
C16_Witness ==
    /\ pc = "returned"
    /\ retval # NoneVal
    /\ Len(tried) = 2
    /\ tried[1] # 0
    /\ current_api = tried[2]

\* C17: search_music with a source that is not a platform of music_api returns
\* no songs without an outbound request and leaves current_api as it was.
C17_UnsupportedPlatformNoRequest ==
    /\ []((handler = "info" /\ args.source \notin Platforms) =>
             /\ trace = <<>>
             /\ tried = <<>>
             /\ pc \in {"returned", "done"}
             /\ pc = "returned" => SearchMusicResults(retval, args.source) = <<>>
             /\ pc = "done" => (response.error /\ response.results = <<>>))
    /\ [][(handler' = "info" /\ args'.source \notin Platforms)
             => current_api' = current_api]_vars

\* C17 witness: a /song_info for an unsupported platform is answered after
\* earlier requests moved the cursor.
C17_Witness ==
    /\ pc = "done" /\ handler = "info"
    /\ args.id # 0 /\ args.source \notin Platforms
    /\ response.error
    /\ current_api # 0

\* --------------------------------------------- search_local_elasticsearch claims

LocalQueryAt(index) ==
    {i \in 1..Len(local_call.queries) : local_call.queries[i].index = index}

LocalIds(hits) == {hits[i].id : i \in 1..Len(hits)}

\* C19: for limit >= 0 search_local_elasticsearch returns at most limit songs;
\* the song index is queried first, the singer index only when the song stage
\* gave fewer than limit songs, the lyric index only after the singer stage and
\* only when both stages together gave fewer than limit songs.
C19_AtMostLimitInStages ==
    (local_call.called /\ local_call.limit >= 0) =>
        /\ Len(local_call.results) <= local_call.limit
        /\ LocalQueryAt("song") \subseteq {1}
        /\ LocalQueryAt("singer") \subseteq {2}
        /\ LocalQueryAt("geci") \subseteq {3}
        /\ \A i \in LocalQueryAt("singer") :
             /\ ~local_call.songQ.raise
             /\ local_call.queries[i].before
                   = Len(PySlice(local_call.songQ.hits, local_call.limit))
             /\ local_call.queries[i].before < local_call.limit
        /\ \A i \in LocalQueryAt("geci") :
             /\ ~local_call.singerQ.raise
             /\ local_call.queries[i].before >= local_call.queries[i - 1].before
             /\ local_call.queries[i].before < local_call.limit

\* C19 witness: all three indices were queried and limit songs are returned.
C19_Witness ==
    /\ local_call.called
    /\ local_call.limit >= 1
    /\ Len(local_call.queries) = 3
    /\ Len(local_call.results) = local_call.limit

\* C20: when each index query returns hits of distinct ids, no two songs of the
\* list search_local_elasticsearch returns have the same id.
C20_LocalIdsDistinct ==
    local_call.called =>
        \A i, j \in 1..Len(local_call.results) :
            i < j => local_call.results[i].id # local_call.results[j].id

\* C20 witness: the singer index returned a hit the song index had returned
\* too, within the room limit left, and songs of both stages are returned.
C20_Witness ==
    /\ local_call.called
    /\ \E i \in LocalQueryAt("singer") :
         LocalIds(PySlice(local_call.singerQ.hits,
                          local_call.limit - local_call.queries[i].before))
            \cap LocalIds(local_call.songQ.hits) # {}
    /\ Len(local_call.results) > Len(local_call.songQ.hits)

\* ------------------------------------------------------ admin route claims

\* C12: a /delete_analyzed_songs request with a wrong password or with empty
\* song_ids is answered success false and leaves the table as it was.
C12_RefusedDeleteKeepsTable ==
    /\ [](handler = "delete" /\ (args.password # Password \/ args.song_ids = {})
             => response.error)
    /\ [][(handler' = "delete" /\ (args'.password # Password \/ args'.song_ids = {}))
             => analyzed_songs' = analyzed_songs]_vars

\* C12 witness: a refused request with a wrong password that lists rows of the
\* table.
C12_Witness ==
    /\ pc = "done" /\ handler = "delete"
    /\ args.json /\ args.password # Password
    /\ \E r \in analyzed_songs : r.id \in args.song_ids
    /\ response.error

\* C13 as stated: 'data' of /analyzed_songs never holds more than 50 songs.
C13_AtMostPageCap ==
    handler = "list" => Len(response.results) <= PageCap

\* ------------------------------------------- concurrent _make_request claims

\* C14 as stated: with concurrent calls, one call contacts every endpoint at
\* most once, and a call that returns None after three failed requests has
\* contacted every endpoint.
C14_ConcurrentCallCoversEndpoints ==
    \A c \in Callers :
        /\ \A i, j \in 1..Len(calls[c].tried) :
                i < j => calls[c].tried[i] # calls[c].tried[j]
        /\ (calls[c].at = "returned" /\ calls[c].retry_count = NumEndpoints) =>
                {calls[c].tried[i] : i \in 1..Len(calls[c].tried)} = Endpoints

\* C15: under every interleaving of concurrent calls current_api is an index
\* of api_endpoints.
C15_CursorInRange == current_api \in Endpoints

\* C15 witness: two calls are running, one of them has been to the last
\* endpoint, and the cursor has wrapped to the first.
C15_Witness ==
    /\ \A c \in Callers : calls[c].at # "idle"
    /\ \E c \in Callers : \E i \in 1..Len(calls[c].tried) :
          calls[c].tried[i] = NumEndpoints - 1
    /\ current_api = 0

\* ------------------------------------------------------------ /suggest claims

\* The request is a /suggest with a query of 2 or more characters that has
\* been answered.
SuggestAnswered == pc = "done" /\ handler = "suggest" /\ Len(query) >= SuggestMinLen

\* The case-insensitive 'name-artist' key of a returned suggestion.
ReturnedKey(sug) == Lower(sug.name \o <<"-">> \o sug.artist.val)

SuggestKeysDistinctNamed ==
    /\ \A i, j \in 1..Len(Results) :
          i < j => ReturnedKey(Results[i]) # ReturnedKey(Results[j])
    /\ \A i \in 1..Len(Results) : Results[i].name # <<>>

\* C21 as stated: /suggest returns at most limit suggestions for every integer
\* limit, no two with the same case-insensitive name-artist key, none with an
\* empty name.
C21_SuggestAtMostLimit ==
    SuggestAnswered => (Len(Results) <= limit /\ SuggestKeysDistinctNamed)

\* C21 amended: at most limit suggestions when limit >= 1 and at most 1
\* otherwise, no two with the same case-insensitive name-artist key, none with
\* an empty name.
C21_SuggestAtMostLimitFromOne ==
    SuggestAnswered => (Len(Results) <= Max(limit, 1) /\ SuggestKeysDistinctNamed)

\* C21 witness: limit >= 2 suggestions are returned and a gathered song with a
\* name and a key of its own was cut off by the limit.
C21_Witness ==
    /\ SuggestAnswered
    /\ limit >= 2
    /\ Len(Results) = limit
    /\ \E k \in 1..Len(Gathered) :
         /\ Strip(Gathered[k].name) # <<>>
         /\ \A i \in 1..Len(Results) : ReturnedKey(Results[i]) # SuggestKey(Gathered[k])

\* ------------------------------------------------------ add_analyzed_song claims

\* The save thread of slot s ends in the step, with or without a row written.
ThreadEnds(s) == threads[s].busy /\ ~threads'[s].busy

\* The song of song_data is neither a row of the table nor in the listing.
NotListed(d) ==
    /\ \A r \in analyzed_songs : ~(r.song_id = d.id /\ r.source = d.source)
    /\ \A i \in 1..Len(Results) : ~(Results[i].id = d.id /\ Results[i].source = d.source)

\* C22: add_analyzed_song returns without the row written, having started the
\* save thread; the end of a save thread, failed or not, changes nothing the
\* handler or its answer sees. (That a later /analyzed_songs may miss the song
\* is the witness.)
C22_SaveIsAsynchronous ==
    /\ [][(pc = "d_save" /\ pc' # "d_save") =>
             /\ pc' = "d_respond"
             /\ analyzed_songs' = analyzed_songs
             /\ rowid_seq' = rowid_seq
             /\ \E s \in Slots :
                   ~threads[s].busy /\ threads'[s] = [busy |-> TRUE, data |-> song_detail]]_vars
    /\ [][(\E s \in Slots : ThreadEnds(s)) =>
             (pc' = pc /\ response' = response /\ song_detail' = song_detail)]_vars

\* C22 witness: a /analyzed_songs request was answered without an error while
\* the save thread of an answered /song_detail has not written: the song is not
\* in the table and not in the listing.
C22_Witness ==
    /\ pc = "done" /\ handler = "list" /\ ~response.error
    /\ \E s \in Slots : threads[s].busy /\ NotListed(threads[s].data)

\* ------------------------------------------------------ /search termination

\* The number of handler steps a /search request can still take, at most: the
\* response, the dedup, and for the platform of the for loop and each later one
\* a backup search, the return of search_music and a request per endpoint.
SearchRank ==
    LET perPlatform == NumEndpoints + 2
        later == (Len(Sources) - src) * perPlatform
    IN  CASE pc = "done" -> 0
          [] pc = "s_dedup" -> 1
          [] pc = "s_backup" -> later + 2
          [] pc = "returned" -> later + 3
          [] pc = "request" -> later + 3 + (NumEndpoints - retry_count)
          [] OTHER -> Len(Sources) * perPlatform + 2

\* C23: a /search request sends at most 3 proxy requests for netease, at most 1
\* backup request, at most 3 proxy requests for qq, 7 outbound requests at
\* most; until the dedup a step of the handler is possible at every position
\* (every call returns or raises), the dedup and the response wait for nothing,
\* and every step lowers the number of steps left, so the request ends with a
\* JSON response.
C23_TerminatesWithinSevenRequests ==
    /\ [](handler = "search" =>
            /\ Cardinality(HttpEvents("netease")) <= NumEndpoints
            /\ Cardinality(HttpEvents("qq")) <= NumEndpoints
            /\ Cardinality(BackupEvents) <= 1
            /\ OutboundEvents = HttpEvents("netease") \cup HttpEvents("qq")
                                   \cup BackupEvents
            /\ Cardinality(OutboundEvents) <= 7
            /\ SearchRank >= 0
            /\ pc = "done" => response.kind = "json"
            /\ pc \in {"s_local", "request", "returned", "s_backup", "s_dedup", "done"}
            /\ pc = "s_local" => ENABLED SearchLocal
            /\ pc = "request" => ENABLED HttpAnswer
            /\ pc = "returned" => ENABLED SearchMusicReturn
            /\ pc = "s_backup" => ENABLED SearchBackup)
    /\ [][(handler = "search" /\ handler' = "search") => SearchRank' < SearchRank]_vars

\* C23 witness: an answered /search that sent 7 outbound requests.
C23_Witness ==
    SearchAnswered /\ Cardinality(OutboundEvents) = 7

====
